---- MODULE Spec2Model ----
(***************************************************************************)
(* Model of app.py: a Flask application with one route, `/`, launched by   *)
(* the main block, which resolves the port from the PORT environment       *)
(* variable (line 12) and calls app.run(debug=True, host='0.0.0.0',        *)
(* port=port) (line 13).                                                   *)
(*                                                                         *)
(* Strings that the program parses are sequences of one-character strings, *)
(* so that int() is computed the way Python computes it.                   *)
(***************************************************************************)
EXTENDS Integers, Sequences, FiniteSets, TLC

VARIABLES
    environ,    \* the PORT entry of os.environ: [set, val]
    osGrants,   \* whether the OS lets a valid address be bound (port free, permitted)
    pc,         \* position of the main block / outcome of the process
    port,       \* the name `port` of line 12: <<>> while unbound, <<n>> once assigned
    sock,       \* the listening socket: [open, host, port]
    request,    \* the request handled last
    response,   \* the response written last
    served      \* number of requests handled so far

vars == <<environ, osGrants, pc, port, sock, request, response, served>>

-----------------------------------------------------------------------------
(* Bounds *)

MaxRequests == 2

-----------------------------------------------------------------------------
(* Program constants *)

DefaultPort == 5000

Host == "0.0.0.0"

Greeting == "Hello, World! This is version 1.0!"

\* The route of line 6 names no methods: Flask registers GET and adds HEAD
\* and OPTIONS to it.
RouteMethods == {"GET", "HEAD", "OPTIONS"}

RoutePath == "/"

\* Ports a socket address may carry; bind() raises OverflowError outside it.
PortRange == 0 .. (2^16 - 1)

\* Ports the OS may assign when asked to bind port 0.
EphemeralPorts == {32768, 60999}

-----------------------------------------------------------------------------
(* int(): Python's conversion to an integer, base 10 *)

DigitChars == <<"0", "1", "2", "3", "4", "5", "6", "7", "8", "9">>

Digits == {DigitChars[i] : i \in 1..Len(DigitChars)}

DigitVal(c) == (CHOOSE i \in 1..Len(DigitChars) : DigitChars[i] = c) - 1

IsSpace(c) == c \in {" ", "\t", "\n"}

RECURSIVE LStrip(_)
LStrip(s) == IF s # <<>> /\ IsSpace(Head(s)) THEN LStrip(Tail(s)) ELSE s

RECURSIVE RStrip(_)
RStrip(s) ==
    IF s # <<>> /\ IsSpace(s[Len(s)]) THEN RStrip(SubSeq(s, 1, Len(s) - 1)) ELSE s

Strip(s) == RStrip(LStrip(s))

\* Digits, with single underscores allowed between two digits.
WellFormedDigits(d) ==
    /\ Len(d) >= 1
    /\ \A i \in 1..Len(d) : d[i] \in Digits \cup {"_"}
    /\ d[1] \in Digits
    /\ d[Len(d)] \in Digits
    /\ \A i \in 1..(Len(d) - 1) : ~(d[i] = "_" /\ d[i + 1] = "_")

RECURSIVE DigitsValue(_, _)
DigitsValue(d, acc) ==
    IF d = <<>> THEN acc
    ELSE IF Head(d) = "_" THEN DigitsValue(Tail(d), acc)
    ELSE DigitsValue(Tail(d), acc * 10 + DigitVal(Head(d)))

\* int(s) for a string s: [ok |-> FALSE] stands for ValueError.
IntOfStr(s) ==
    LET t      == Strip(s)
        signed == t # <<>> /\ t[1] \in {"+", "-"}
        neg    == t # <<>> /\ t[1] = "-"
        d      == IF signed THEN Tail(t) ELSE t
    IN  IF WellFormedDigits(d)
        THEN [ok |-> TRUE, val |-> (IF neg THEN -1 ELSE 1) * DigitsValue(d, 0)]
        ELSE [ok |-> FALSE, val |-> 0]

\* A mutant of EnvironGet: the default is ignored when the variable is unset.
EnvironGetNoDefault(env, default) ==
    IF env.set
    THEN [type |-> "str", s |-> env.val, n |-> 0]
    ELSE [type |-> "int", s |-> <<>>, n |-> 0]

\* os.environ.get("PORT", default): the variable's string, or the default as it is.
EnvironGet(env, default) ==
    IF env.set
    THEN [type |-> "str", s |-> env.val, n |-> 0]
    ELSE [type |-> "int", s |-> <<>>, n |-> default]

\* A mutant of PyInt: a string that does not parse falls back to the default.
PyIntLenient(v) ==
    IF v.type = "int" THEN [ok |-> TRUE, val |-> v.n]
    ELSE IF IntOfStr(v.s).ok THEN IntOfStr(v.s)
    ELSE [ok |-> TRUE, val |-> DefaultPort]

\* int(v): an int is returned as it is, a string is parsed.
PyInt(v) == IF v.type = "int" THEN [ok |-> TRUE, val |-> v.n] ELSE IntOfStr(v.s)

\* What line 12 evaluates to in the given environment.
ResolvedPort(env) == PyInt(EnvironGet(env, DefaultPort))

-----------------------------------------------------------------------------
(* Inputs *)

Unset == [set |-> FALSE, val |-> <<>>]

SetTo(s) == [set |-> TRUE, val |-> s]

PortStrings ==
    { <<"8", "0", "8", "0">>,
      <<"5", "0", "0", "0">>,
      <<"0">>,
      <<"0", "0", "8", "0">>,
      <<"6", "5", "5", "3", "5">>,
      <<"6", "5", "5", "3", "6">>,
      <<"7", "0", "0", "0", "0">>,
      <<"-", "1">>,
      <<"+", "8", "0">>,
      <<" ", "8", "0", "8", "0", "\n">>,
      <<"8", "_", "0", "8", "0">>,
      <<"8", "_", "_", "0">>,
      <<"_", "8", "0">>,
      <<"+", " ", "5">>,
      <<"a", "b", "c">>,
      <<"8", "0", ".", "5">>,
      <<"0", "x", "5", "0">>,
      <<>> }

Environments == {Unset} \cup {SetTo(s) : s \in PortStrings}

Methods == {"GET", "HEAD", "OPTIONS", "POST", "PUT", "DELETE"}

Paths == {"/", "/missing", "/console"}

\* The query string, as the arguments the debugger middleware reads from it:
\* "" stands for an argument that is absent.
Queries ==
    [ debugger : {"", "yes"},
      cmd      : {"", "resource"},
      f        : {"", "style.css", "nope.txt"} ]

Headers == {"none", "X-Test: 1"}

Requests == [method : Methods, path : Paths, query : Queries, headers : Headers]

NoQuery == [debugger |-> "", cmd |-> "", f |-> ""]

NoRequest == [method |-> "", path |-> "", query |-> NoQuery, headers |-> "none"]

NoResponse == [status |-> 0, body |-> "", by |-> ""]

NoSocket == [open |-> FALSE, host |-> "", port |-> 0]

-----------------------------------------------------------------------------
(* The application: route `/` -> hello *)

\* hello(): the view function's return value.
hello == Greeting

\* A mutant of FlaskDispatch: the rule matches every path.
FlaskDispatchCatchAll(req) ==
    IF req.method \notin RouteMethods
    THEN [status |-> 405, body |-> "Method Not Allowed", by |-> "flask"]
    ELSE IF req.method = "OPTIONS"
    THEN [status |-> 200, body |-> "", by |-> "flask"]
    ELSE [status |-> 200,
          body |-> IF req.method = "HEAD" THEN "" ELSE hello,
          by |-> "hello"]

\* A mutant of FlaskDispatch: the rule also accepts POST.
FlaskDispatchPost(req) ==
    IF req.path # RoutePath
    THEN [status |-> 404, body |-> "Not Found", by |-> "flask"]
    ELSE IF req.method \notin RouteMethods \cup {"POST"}
    THEN [status |-> 405, body |-> "Method Not Allowed", by |-> "flask"]
    ELSE IF req.method = "OPTIONS"
    THEN [status |-> 200, body |-> "", by |-> "flask"]
    ELSE [status |-> 200,
          body |-> IF req.method = "HEAD" THEN "" ELSE hello,
          by |-> "hello"]

\* A mutant of FlaskDispatch: the view answers with status 201.
FlaskDispatchCreated(req) ==
    IF req.path # RoutePath
    THEN [status |-> 404, body |-> "Not Found", by |-> "flask"]
    ELSE IF req.method \notin RouteMethods
    THEN [status |-> 405, body |-> "Method Not Allowed", by |-> "flask"]
    ELSE IF req.method = "OPTIONS"
    THEN [status |-> 200, body |-> "", by |-> "flask"]
    ELSE [status |-> 201,
          body |-> IF req.method = "HEAD" THEN "" ELSE hello,
          by |-> "hello"]

\* The application's dispatch of a request over its URL map, which holds the
\* one rule `/` -> hello: no rule for the path is 404, a method the rule does
\* not carry is 405, OPTIONS is answered automatically, GET and HEAD call
\* hello; a str return value becomes a 200 response, and the body of the
\* response to HEAD is not sent.
FlaskDispatch(req) ==
    IF req.path # RoutePath
    THEN [status |-> 404, body |-> "Not Found", by |-> "flask"]
    ELSE IF req.method \notin RouteMethods
    THEN [status |-> 405, body |-> "Method Not Allowed", by |-> "flask"]
    ELSE IF req.method = "OPTIONS"
    THEN [status |-> 200, body |-> "", by |-> "flask"]
    ELSE [status |-> 200,
          body |-> IF req.method = "HEAD" THEN "" ELSE hello,
          by |-> "hello"]

\* Files the debugger serves as resources.
SharedResources == {"style.css"}

\* The debugger answers a request itself, whatever its path and method, when
\* the query asks for one of its resources.
DebuggerIntercepts(req) ==
    /\ req.query.debugger = "yes"
    /\ req.query.cmd = "resource"
    /\ req.query.f # ""

\* debug=True (line 13) serves the application behind the debugger
\* middleware: a resource query is answered with the resource (or 404), the
\* path /console with the console page, everything else by the application.
DebuggedApplication(req) ==
    IF req.query.debugger = "yes"
    THEN IF DebuggerIntercepts(req)
         THEN IF req.query.f \in SharedResources
              THEN [status |-> 200, body |-> "shared resource", by |-> "debugger"]
              ELSE [status |-> 404, body |-> "Not Found", by |-> "debugger"]
         ELSE FlaskDispatch(req)
    ELSE IF req.path = "/console"
    THEN [status |-> 200, body |-> "console", by |-> "debugger"]
    ELSE FlaskDispatch(req)

-----------------------------------------------------------------------------
(* The process *)

Init ==
    /\ environ \in Environments
    /\ osGrants \in BOOLEAN
    /\ pc = "main"
    /\ port = <<>>
    /\ sock = NoSocket
    /\ request = NoRequest
    /\ response = NoResponse
    /\ served = 0

\* Line 12: port = int(os.environ.get("PORT", 5000)).
ResolvePort ==
    /\ pc = "main"
    /\ LET r == ResolvedPort(environ)
       IN  IF r.ok
           THEN /\ port' = <<r.val>>
                /\ pc' = "run"
           ELSE /\ port' = port
                /\ pc' = "ValueError"
    /\ UNCHANGED <<environ, osGrants, sock, request, response, served>>

\* A mutant of Bind: the socket is bound to the loopback interface.
BindLoopback(host, p) ==
    {[open |-> TRUE, host |-> "127.0.0.1", port |-> q] :
        q \in IF p = 0 THEN EphemeralPorts ELSE {p}}

\* A mutant of Bind: the default port is bound whatever port is asked for.
BindDefault(host, p) ==
    {[open |-> TRUE, host |-> host, port |-> DefaultPort]}

\* The sockets that binding (host, p) may yield, p being in PortRange: port 0
\* asks the OS for a port of its choice.
Bind(host, p) ==
    {[open |-> TRUE, host |-> host, port |-> q] :
        q \in IF p = 0 THEN EphemeralPorts ELSE {p}}

\* A mutant of AppRun: a port outside the range is replaced by the default.
AppRunClamped ==
    /\ pc = "run"
    /\ IF ~osGrants
       THEN /\ pc' = "OSError"
            /\ sock' = sock
       ELSE /\ sock' \in Bind(Host, IF port[1] \in PortRange THEN port[1] ELSE DefaultPort)
            /\ pc' = "serving"
    /\ UNCHANGED <<environ, osGrants, port, request, response, served>>

\* Line 13: app.run(debug=True, host='0.0.0.0', port=port) binds the socket
\* and enters the serving loop, or fails.
AppRun ==
    /\ pc = "run"
    /\ IF port[1] \notin PortRange
       THEN /\ pc' = "OverflowError"
            /\ sock' = sock
       ELSE IF ~osGrants
       THEN /\ pc' = "OSError"
            /\ sock' = sock
       ELSE /\ sock' \in Bind(Host, port[1])
            /\ pc' = "serving"
    /\ UNCHANGED <<environ, osGrants, port, request, response, served>>

\* A mutant of HandleRequest: the server stops after a request.
HandleRequestOnce(req) ==
    /\ pc = "serving"
    /\ served < MaxRequests
    /\ request' = req
    /\ response' = DebuggedApplication(req)
    /\ served' = served + 1
    /\ pc' = "exited"
    /\ sock' = NoSocket
    /\ UNCHANGED <<environ, osGrants, port>>

\* A mutant of HandleRequest: the handler counts requests in `port`.
HandleRequestCounting(req) ==
    /\ pc = "serving"
    /\ served < MaxRequests
    /\ request' = req
    /\ response' = DebuggedApplication(req)
    /\ served' = served + 1
    /\ port' = <<port[1] + 1>>
    /\ UNCHANGED <<environ, osGrants, pc, sock>>

\* The serving loop entered by line 13 handles one request.
HandleRequest(req) ==
    /\ pc = "serving"
    /\ served < MaxRequests
    /\ request' = req
    /\ response' = DebuggedApplication(req)
    /\ served' = served + 1
    /\ UNCHANGED <<environ, osGrants, pc, port, sock>>

\* The process is interrupted from outside while it serves.
Interrupt ==
    /\ pc = "serving"
    /\ pc' = "interrupted"
    /\ sock' = NoSocket
    /\ UNCHANGED <<environ, osGrants, port, request, response, served>>

Next ==
    \/ ResolvePort
    \/ AppRun
    \/ \E req \in Requests : HandleRequest(req)
    \/ Interrupt

Spec == Init /\ [][Next]_vars

-----------------------------------------------------------------------------
(* Properties *)

Handled == served > 0

RootRequest == Handled /\ request.path = "/"

\* Strings of PortStrings that int() rejects, written out.
NonIntegerStrings ==
    { <<"a", "b", "c">>, <<"8", "0", ".", "5">>, <<"0", "x", "5", "0">>, <<>>,
      <<"8", "_", "_", "0">>, <<"_", "8", "0">>, <<"+", " ", "5">> }

\* The port each accepted string of PortStrings denotes, written out.
ExpectedPort(s) ==
    CASE s = <<"8", "0", "8", "0">> -> 8080
      [] s = <<"5", "0", "0", "0">> -> 5000
      [] s = <<"0">> -> 0
      [] s = <<"0", "0", "8", "0">> -> 80
      [] s = <<"6", "5", "5", "3", "5">> -> 65535
      [] s = <<"6", "5", "5", "3", "6">> -> 65536
      [] s = <<"7", "0", "0", "0", "0">> -> 70000
      [] s = <<"-", "1">> -> 0 - 1
      [] s = <<"+", "8", "0">> -> 80
      [] s = <<" ", "8", "0", "8", "0", "\n">> -> 8080
      [] s = <<"8", "_", "0", "8", "0">> -> 8080

C2_DefaultPort ==
    ~environ.set
        => /\ pc # "main" => port = <<5000>>
           /\ pc \notin {"ValueError", "OverflowError"}
           /\ (osGrants /\ pc \notin {"main", "run"}) => pc \in {"serving", "interrupted"}
           /\ pc = "serving" => (sock.open /\ sock.port = 5000)

C2_Witness ==
    /\ ~environ.set
    /\ pc = "serving"
    /\ port = <<5000>>
    /\ sock.open
    /\ sock.port = 5000

C4_ParseFailure ==
    (environ.set /\ (environ.val \in NonIntegerStrings \/ ~IntOfStr(environ.val).ok))
        => /\ pc \in {"main", "ValueError"}
           /\ port = <<>>
           /\ sock = NoSocket
           /\ served = 0

C4_Witness ==
    /\ environ = SetTo(<<"a", "b", "c">>)
    /\ pc = "ValueError"
    /\ ~sock.open
    /\ served = 0

\* C5: a request to a path other than `/` is never answered by hello nor
\* with the greeting as its body.
C5_OtherPaths ==
    (Handled /\ request.path # "/")
        => (response.body # Greeting /\ response.by # "hello")

C5_Witness ==
    /\ Handled
    /\ request.method = "GET"
    /\ request.path = "/missing"
    /\ response.status = 404

\* C6 as stated: whenever the server listens, its socket is bound on host
\* 0.0.0.0 at the resolved port.
C6_AsStated ==
    sock.open => (sock.host = "0.0.0.0" /\ sock.port = port[1])

\* C6, amended: whenever the server listens, its socket is bound on host
\* 0.0.0.0, whatever the environment, and at the resolved port when that
\* port is not 0; for the resolved port 0 it is bound at a port the OS chose.
C6_Binding ==
    /\ pc = "serving" => sock.open
    /\ sock.open
        => /\ sock.host = "0.0.0.0"
           /\ port # <<>>
           /\ port[1] # 0 => sock.port = port[1]
           /\ port[1] = 0 => sock.port \in EphemeralPorts

C6_Witness ==
    /\ pc = "serving"
    /\ environ = SetTo(<<"6", "5", "5", "3", "5">>)
    /\ sock.host = "0.0.0.0"
    /\ sock.port = 65535

\* C7: once the server serves, no step other than the interruption from
\* outside takes it out of the serving state or releases or changes its
\* socket.
C7_KeepsServing ==
    [][(pc = "serving" /\ ~Interrupt)
          => (pc' = "serving" /\ sock.open /\ sock' = sock)]_vars

C7_Witness ==
    /\ pc = "serving"
    /\ served >= 2
    /\ sock.open

\* C8 as stated: with PORT unset or set to a string that parses as an
\* integer, startup does not fail in the application.
C8_AsStated ==
    (~environ.set \/ IntOfStr(environ.val).ok)
        => pc \notin {"ValueError", "OverflowError"}

\* C8, amended: startup fails in the application in two cases, a PORT value
\* that does not parse as an integer (ValueError, line 12) and a PORT value
\* that parses as an integer outside 0..65535 (OverflowError from the bind of
\* line 13, no socket bound). With PORT unset or denoting an integer in
\* 0..65535 startup does not fail in the application, and it ends in the
\* listening state whenever the OS grants the bind.
C8_FailureClasses ==
    LET r == ResolvedPort(environ)
    IN  /\ pc = "ValueError" => (environ.set /\ ~r.ok)
        /\ pc = "OverflowError" => (r.ok /\ (r.val < 0 \/ r.val > 65535) /\ ~sock.open)
        /\ pc = "OSError" => ~osGrants
        /\ pc \in {"serving", "interrupted"} => (r.ok /\ r.val >= 0 /\ r.val <= 65535)
        /\ (r.ok /\ r.val >= 0 /\ r.val <= 65535 /\ osGrants /\ pc \notin {"main", "run"})
              => pc \in {"serving", "interrupted"}

C8_Witness ==
    /\ environ = SetTo(<<"7", "0", "0", "0", "0">>)
    /\ port = <<70000>>
    /\ pc = "OverflowError"
    /\ ~sock.open

\* C9: the resolved port is assigned once, by line 12, and no later step
\* changes it; handling a request changes neither the port, nor the socket,
\* nor the environment, nor the position of the process.
C9_Frame ==
    [][/\ port' # port => (pc = "main" /\ port = <<>>)
       /\ served' # served => UNCHANGED <<environ, osGrants, pc, port, sock>>]_vars

C9_Witness ==
    /\ served >= 2
    /\ request.method = "POST"
    /\ port = <<8080>>
    /\ pc = "serving"

====
